---------------------------- MODULE Spec2Model ----------------------------
(***************************************************************************)
(* Model of the planets simulator (src/src/main.rs): the Planet type with  *)
(* gravitate and apply_velocity, orbit_velocity, random_setup and the      *)
(* frame loop of main (reset, cull, snapshot + force accumulation, move,   *)
(* render).                                                                *)
(*                                                                         *)
(* Numbers.  The program computes in f32, and so does the model: a number  *)
(* is an f32 value, given by its mantissa and exponent, and +, -, *, /,    *)
(* sqrt and the comparisons are those of IEEE 754 binary32, computed with  *)
(* integers of at most 31 binary digits.  The Vec2 operations are built    *)
(* from them in the order glam evaluates them.                             *)
(***************************************************************************)
EXTENDS Integers, Sequences, FiniteSets

(***************************************************************************)
(* Program constants that are whole numbers.                               *)
(***************************************************************************)
TRAIL_LENGTH == 1000
\* rng.gen_range(4..=12)
AMOUNT_MIN == 4
AMOUNT_MAX == 12

(***************************************************************************)
(* Bounds of the model.                                                    *)
(***************************************************************************)
\* most satellites a setup of the frame-loop specification Spec draws
MaxAmount == 4
\* most moves (unpaused ticks) after a setup, in Spec
MaxMoves == 3
\* most moves after a setup in the long-run specification SpecLong
LongMoves == 1002

(***************************************************************************)
(* f32.  A value is a pair <<m, e>> of integers standing for m * 2^e: a    *)
(* normal number has 2^23 <= |m| < 2^24 and -149 <= e <= 104, a subnormal  *)
(* one e = -149 and |m| < 2^23, zero is <<0, -149>>.  e = Special marks    *)
(* the values that are not numbers: NaN, +infinity and -infinity.  Every   *)
(* operation returns the exact result rounded to the nearest value, ties   *)
(* to the even mantissa, as IEEE 754 binary32 does.  The sign of a zero is *)
(* not kept: no operation of the program tells -0.0 from 0.0.              *)
(***************************************************************************)
Special == 999

NaN == <<0, Special>>

Inf == <<1, Special>>

NegInf == <<-1, Special>>

Zero == <<0, -149>>

IsNaN(a) == a = NaN

IsInf(a) == a = Inf \/ a = NegInf

IsZero(a) == a = Zero

IsFinite(a) == a[2] # Special

Abs(n) == IF n < 0 THEN -n ELSE n

Sgn(n) == IF n < 0 THEN -1 ELSE IF n > 0 THEN 1 ELSE 0

Max(a, b) == IF a >= b THEN a ELSE b

\* the number of binary digits of n >= 0
RECURSIVE BitLen(_)
BitLen(n) == IF n = 0 THEN 0 ELSE 1 + BitLen(n \div 2)

\* the value s * m * 2^e, 0 <= m <= 2^24, as an f32: a mantissa of 2^24
\* carries into the exponent, an exponent above 104 overflows to infinity
Finish(s, m, e) ==
  IF m = 0 THEN Zero
  ELSE LET m2 == IF m = 2^24 THEN 2^23 ELSE m
           e2 == IF m = 2^24 THEN e + 1 ELSE e
       IN IF e2 > 104 THEN <<s, Special>> ELSE <<s * m2, e2>>

\* s * n * 2^e (n >= 0) rounded to f32: n is cut to 24 digits, or to fewer
\* where the exponent would fall below -149, and rounded to nearest, ties
\* to even.  An odd n may stand for a value slightly above n (a sticky last
\* digit); the callers keep two digits or more below the cut in that case.
RoundPack(s, n, e) ==
  IF n = 0 THEN Zero
  ELSE LET k == Max(BitLen(n) - 24, -149 - e)
       IN IF k <= 0 THEN Finish(s, n * 2^(-k), e + k)
          ELSE IF k > 30 THEN Zero
          ELSE LET q == n \div 2^k
                   r == n % 2^k
                   half == 2^(k - 1)
                   up == r > half \/ (r = half /\ q % 2 = 1)
               IN Finish(s, IF up THEN q + 1 ELSE q, e + k)

\* a finite non-zero magnitude with its mantissa moved up to 24 digits
RECURSIVE NormUp(_, _)
NormUp(m, e) == IF m >= 2^23 THEN <<m, e>> ELSE NormUp(2 * m, e - 1)

\* n shifted right by d digits, the last digit set when digits were lost
ShiftSticky(n, d) ==
  LET q == n \div 2^d
  IN IF n % 2^d # 0 /\ q % 2 = 0 THEN q + 1 ELSE q

FNeg(a) == IF IsNaN(a) THEN NaN ELSE <<-a[1], a[2]>>

\* a + b for finite non-zero a, b, a the one with the larger exponent
AddOrdered(a, b) ==
  LET A == NormUp(Abs(a[1]), a[2])
      B == NormUp(Abs(b[1]), b[2])
      d == A[2] - B[2]
      sum == Sgn(a[1]) * A[1] * 8 + Sgn(b[1]) * ShiftSticky(B[1] * 8, d)
  IN IF d > 26 THEN a ELSE RoundPack(Sgn(sum), Abs(sum), A[2] - 3)

\* a + b
FAdd(a, b) ==
  IF IsNaN(a) \/ IsNaN(b) THEN NaN
  ELSE IF IsInf(a) THEN (IF IsInf(b) /\ a # b THEN NaN ELSE a)
  ELSE IF IsInf(b) THEN b
  ELSE IF IsZero(a) THEN b
  ELSE IF IsZero(b) THEN a
  ELSE IF NormUp(Abs(a[1]), a[2])[2] >= NormUp(Abs(b[1]), b[2])[2]
       THEN AddOrdered(a, b)
       ELSE AddOrdered(b, a)

\* a - b
FSub(a, b) == FAdd(a, FNeg(b))

\* the product of two mantissas x, y of 24 digits, as <<hi, lo>>:
\* x * y = hi * 2^24 + lo
Mul24(x, y) ==
  LET x1 == x \div 4096
      x0 == x % 4096
      y1 == y \div 4096
      y0 == y % 4096
      mid == x1 * y0 + x0 * y1
      low == (mid % 4096) * 4096 + x0 * y0
  IN <<x1 * y1 + mid \div 4096 + low \div 2^24, low % 2^24>>

\* a * b
FMul(a, b) ==
  IF IsNaN(a) \/ IsNaN(b) THEN NaN
  ELSE LET s == Sgn(a[1]) * Sgn(b[1])
       IN IF IsInf(a) \/ IsInf(b) THEN (IF s = 0 THEN NaN ELSE <<s, Special>>)
          ELSE IF s = 0 THEN Zero
          ELSE LET A == NormUp(Abs(a[1]), a[2])
                   B == NormUp(Abs(b[1]), b[2])
                   p == Mul24(A[1], B[1])
                   top == p[1] * 64 + p[2] \div 2^18
                   n == IF p[2] % 2^18 # 0 /\ top % 2 = 0 THEN top + 1 ELSE top
               IN RoundPack(s, n, A[2] + B[2] + 18)

\* the quotient x / y of two mantissas of 24 digits to 29 digits after the
\* point, with a last digit set when the division leaves a remainder
Div24(x, y) ==
  LET t1 == (x % y) * 128
      t2 == (t1 % y) * 128
      t3 == (t2 % y) * 128
      t4 == (t3 % y) * 128
      q == ((((x \div y) * 128 + t1 \div y) * 128 + t2 \div y) * 128
              + t3 \div y) * 128 + t4 \div y
  IN 2 * q + (IF t4 % y # 0 THEN 1 ELSE 0)

\* a / b
FDiv(a, b) ==
  IF IsNaN(a) \/ IsNaN(b) THEN NaN
  ELSE LET s == Sgn(a[1]) * (IF b[1] < 0 THEN -1 ELSE 1)
       IN IF IsInf(a) THEN (IF IsInf(b) THEN NaN ELSE <<s, Special>>)
          ELSE IF IsInf(b) THEN Zero
          ELSE IF IsZero(b) THEN (IF IsZero(a) THEN NaN ELSE <<s, Special>>)
          ELSE IF IsZero(a) THEN Zero
          ELSE LET A == NormUp(Abs(a[1]), a[2])
                   B == NormUp(Abs(b[1]), b[2])
               IN RoundPack(s, Div24(A[1], B[1]), A[2] - B[2] - 29)

RECURSIVE SqrtSearch(_, _, _)
SqrtSearch(n, lo, hi) ==
  IF lo >= hi THEN lo
  ELSE LET mid == (lo + hi + 1) \div 2
       IN IF mid * mid <= n THEN SqrtSearch(n, mid, hi)
          ELSE SqrtSearch(n, lo, mid - 1)

\* the square root of root^2 + rem carried on by `steps` binary digits:
\* <<root, remainder>>
RECURSIVE SqrtDigits(_, _, _)
SqrtDigits(root, rem, steps) ==
  IF steps = 0 THEN <<root, rem>>
  ELSE IF 4 * rem >= 4 * root + 1
       THEN SqrtDigits(2 * root + 1, 4 * rem - (4 * root + 1), steps - 1)
       ELSE SqrtDigits(2 * root, 4 * rem, steps - 1)

\* a.sqrt()
FSqrt(a) ==
  IF IsNaN(a) THEN NaN
  ELSE IF IsZero(a) THEN Zero
  ELSE IF a[1] < 0 THEN NaN
  ELSE IF IsInf(a) THEN Inf
  ELSE LET A == NormUp(a[1], a[2])
           odd == A[2] % 2 # 0
           m == IF odd THEN 2 * A[1] ELSE A[1]
           e == IF odd THEN A[2] - 1 ELSE A[2]
           r0 == SqrtSearch(m, 0, 5793)
           rr == SqrtDigits(r0, m - r0 * r0, 14)
       IN RoundPack(1, 2 * rr[1] + (IF rr[2] # 0 THEN 1 ELSE 0),
                    e \div 2 - 15)

\* the place of a value that is not NaN in the order of the f32 values
OrderKey(a) ==
  IF a[2] = Special THEN <<2 * a[1], 0, 0>>
  ELSE <<Sgn(a[1]), Sgn(a[1]) * a[2], a[1]>>

KeyLess(k, l) ==
  \/ k[1] < l[1]
  \/ k[1] = l[1] /\ k[2] < l[2]
  \/ k[1] = l[1] /\ k[2] = l[2] /\ k[3] < l[3]

\* a < b; false when either is NaN
FLt(a, b) == ~IsNaN(a) /\ ~IsNaN(b) /\ KeyLess(OrderKey(a), OrderKey(b))

\* a <= b; false when either is NaN
FLe(a, b) == ~IsNaN(a) /\ ~IsNaN(b) /\ ~KeyLess(OrderKey(b), OrderKey(a))

\* f32::min: the other value when one is NaN
FMin(a, b) ==
  IF IsNaN(a) THEN b ELSE IF IsNaN(b) THEN a ELSE IF FLe(a, b) THEN a ELSE b

\* the f32 n * 2^e for an integer |n| < 2^24 (exact)
Real(n, e) == RoundPack(Sgn(n), Abs(n), e)

\* the f32 of a whole number |n| < 2^24
Whole(n) == Real(n, 0)

(***************************************************************************)
(* Program constants that are f32 values.                                  *)
(***************************************************************************)
One == Whole(1)
\* const SCALE_FACTOR: f32 = 10e6
SCALE_FACTOR == Whole(10000000)
\* const G: f32 = 6.674e-11 * SCALE_FACTOR; the f32 nearest to 6.674e-11
\* is 9618248 * 2^-57
G == FMul(Real(9618248, -57), SCALE_FACTOR)
MAX_SPEED == Whole(2)
MAX_ORBIT_RADIUS == Whole(400)
\* the f32 nearest to 0.8
ORBIT_ELLIPTICITY == Real(13421773, -24)
CULL_DISTANCE == Whole(1500)
\* rng.gen_range(50.0..=5000.0)
MASS_MIN == Whole(50)
MASS_MAX == Whole(5000)
SUN_MASS == Whole(1500000)
\* apply_velocity's local SCALE_FACTOR = 1.0
MOVE_SCALE == Whole(1)

(***************************************************************************)
(* Vec2 (glam).                                                            *)
(***************************************************************************)
Vec(x, y) == [x |-> x, y |-> y]

ZeroVec == Vec(Zero, Zero)

VecIsNaN(v) == IsNaN(v.x) \/ IsNaN(v.y)

\* Vec2 + Vec2
VAdd(a, b) == Vec(FAdd(a.x, b.x), FAdd(a.y, b.y))

\* Vec2 - Vec2
VSub(a, b) == Vec(FSub(a.x, b.x), FSub(a.y, b.y))

\* Vec2 * f32
VMul(v, s) == Vec(FMul(v.x, s), FMul(v.y, s))

\* Vec2::length_squared: x * x + y * y
LengthSquared(v) == FAdd(FMul(v.x, v.x), FMul(v.y, v.y))

\* Vec2::length
Length(v) == FSqrt(LengthSquared(v))

\* Vec2::distance_squared
DistanceSquared(a, b) == LengthSquared(VSub(a, b))

\* Vec2::distance
Distance(a, b) == Length(VSub(a, b))

\* Vec2::normalize: v * (1.0 / length); the zero vector gives
\* 0 * infinity = NaN in both components
Normalize(v) == VMul(v, FDiv(One, Length(v)))

(***************************************************************************)
(* Planet.                                                                 *)
(***************************************************************************)
\* struct Planet; color takes no part in the simulation and is left out
Planet(pos, mass, velocity, trail) ==
  [pos |-> pos, mass |-> mass, velocity |-> velocity, trail |-> trail]

\* gravitate with the bug of dividing the pull by the body's own mass
gravitate_by_own_mass(self, other) ==
  LET d == DistanceSquared(self.pos, other.pos)
      f == FDiv(FMul(G, other.mass), d)
      a == FDiv(f, self.mass)
      dir == Normalize(VSub(other.pos, self.pos))
  IN [self EXCEPT !.velocity = VAdd(self.velocity, VMul(dir, a))]

\* Planet::gravitate
gravitate(self, other) ==
  LET d == DistanceSquared(self.pos, other.pos)
      f == FDiv(FMul(G, other.mass), d)
      a == f
      dir == Normalize(VSub(other.pos, self.pos))
  IN [self EXCEPT !.velocity = VAdd(self.velocity, VMul(dir, a))]

\* VecDeque::truncate
Truncate(trail, len) ==
  IF Len(trail) <= len THEN trail ELSE SubSeq(trail, 1, len)

\* apply_velocity with the bug of truncating before the push
apply_velocity_truncate_first(self) ==
  LET cut == Truncate(self.trail, TRAIL_LENGTH)
  IN [self EXCEPT !.trail = <<self.pos>> \o cut,
                  !.pos = VAdd(self.pos, VMul(self.velocity, MOVE_SCALE))]

\* apply_velocity with the bug of pushing at the back of the trail
apply_velocity_push_back(self) ==
  [self EXCEPT !.trail = Truncate(Append(self.trail, self.pos), TRAIL_LENGTH),
               !.pos = VAdd(self.pos, VMul(self.velocity, MOVE_SCALE))]

\* Planet::apply_velocity
apply_velocity(self) ==
  LET pushed == <<self.pos>> \o self.trail
  IN [self EXCEPT !.trail = Truncate(pushed, TRAIL_LENGTH),
                  !.pos = VAdd(self.pos, VMul(self.velocity, MOVE_SCALE))]

\* orbit_velocity with the bug of swapping the coordinates of the radius
\* vector without negating one
orbit_velocity_swapped(sat, center) ==
  LET dist == Distance(sat.pos, center.pos)
      speed == FSqrt(FDiv(FMul(G, FAdd(center.mass, sat.mass)), dist))
      diff == VSub(sat.pos, center.pos)
      tan == Normalize(Vec(diff.y, diff.x))
      speed2 == FMin(speed, MAX_SPEED)
  IN VAdd(VMul(tan, speed2), center.velocity)

\* orbit_velocity
orbit_velocity(sat, center) ==
  LET dist == Distance(sat.pos, center.pos)
      speed == FSqrt(FDiv(FMul(G, FAdd(center.mass, sat.mass)), dist))
      diff == VSub(sat.pos, center.pos)
      tan == Normalize(Vec(FNeg(diff.y), diff.x))
      speed2 == FMin(speed, MAX_SPEED)
  IN VAdd(VMul(tan, speed2), center.velocity)

(***************************************************************************)
(* The draws of random_setup.  rng.gen_range on f32 turns one word of the  *)
(* generator, the 23 bits of rng.gen::<u32>() >> 9, into a value of the    *)
(* range, so that only some f32 of a range can be drawn.  A sample holds   *)
(* the four words drawn for one satellite: for x, y, mass and the          *)
(* ellipticity term e.                                                     *)
(***************************************************************************)
Sample(x, y, mass, e) == [x |-> x, y |-> y, mass |-> mass, e |-> e]

\* the values of rng.gen::<u32>() >> 9
IsRngWord(k) == k \in 0..8388607

\* value1_2 - 1.0, for value1_2 the f32 in [1, 2) whose fraction bits are k
value0_1(k) == FSub(Real(8388608 + k, -23), One)

\* the largest value0_1
max_rand == value0_1(8388607)

\* rng.gen_range(low..high) for the word k: value0_1 * scale + low.  The
\* code draws another word when the result is not below high.
gen_range(low, high, k) ==
  LET scale == FSub(high, low)
  IN FAdd(FMul(value0_1(k), scale), low)

\* the f32 next below the positive f32 scale
decrease_masked(scale) ==
  IF scale[1] = 8388608 /\ scale[2] > -149
  THEN <<16777215, scale[2] - 1>>
  ELSE <<scale[1] - 1, scale[2]>>

\* the loop of new_inclusive: the largest scale, from the given one down,
\* with scale * max_rand + low <= high
RECURSIVE decrease_scale(_, _, _)
decrease_scale(low, high, scale) ==
  IF FLt(high, FAdd(FMul(scale, max_rand), low))
  THEN decrease_scale(low, high, decrease_masked(scale))
  ELSE scale

\* the scale of rng.gen_range(low..=high)
new_inclusive(low, high) ==
  decrease_scale(low, high, FDiv(FSub(high, low), max_rand))

\* rng.gen_range(low..=high) for the word k
gen_range_inclusive(low, high, k) ==
  FAdd(FMul(value0_1(k), new_inclusive(low, high)), low)

\* the draws random_setup makes: amount, and per satellite the words of x,
\* y, mass and e; a word of x or y is one whose value the loop of gen_range
\* accepts
IsRngOutcome(amount, samples) ==
  /\ AMOUNT_MIN <= amount
  /\ amount <= AMOUNT_MAX
  /\ Len(samples) = amount
  /\ \A k \in 1..amount :
       /\ IsRngWord(samples[k].x)
       /\ IsRngWord(samples[k].y)
       /\ IsRngWord(samples[k].mass)
       /\ IsRngWord(samples[k].e)
       /\ FLt(gen_range(FNeg(MAX_ORBIT_RADIUS), MAX_ORBIT_RADIUS, samples[k].x),
              MAX_ORBIT_RADIUS)
       /\ FLt(gen_range(FNeg(MAX_ORBIT_RADIUS), MAX_ORBIT_RADIUS, samples[k].y),
              MAX_ORBIT_RADIUS)

Sun == Planet(ZeroVec, SUN_MASS, ZeroVec, <<>>)

\* the closure of random_setup's map: one satellite from the words drawn
\* for it
NewPlanet(s, sun) ==
  LET x == gen_range(FNeg(MAX_ORBIT_RADIUS), MAX_ORBIT_RADIUS, s.x)
      y == gen_range(FNeg(MAX_ORBIT_RADIUS), MAX_ORBIT_RADIUS, s.y)
      mass == gen_range_inclusive(MASS_MIN, MASS_MAX, s.mass)
      planet == Planet(Vec(x, y), mass, ZeroVec, <<>>)
      v == orbit_velocity(planet, sun)
      e == gen_range_inclusive(FNeg(ORBIT_ELLIPTICITY), ORBIT_ELLIPTICITY, s.e)
  IN [planet EXCEPT !.velocity = Vec(FAdd(v.x, e), v.y)]

\* random_setup with the bug of putting the sun first
random_setup_sun_first(amount, samples) ==
  LET sun == Sun
      planets == [k \in 1..amount |-> NewPlanet(samples[k], sun)]
  IN <<sun>> \o planets

\* random_setup, given the rng's draws
random_setup(amount, samples) ==
  LET sun == Sun
      planets == [k \in 1..amount |-> NewPlanet(samples[k], sun)]
  IN Append(planets, sun)

(***************************************************************************)
(* The samples the model enumerates.  BaseSamples are twelve samples at    *)
(* distinct points; a stream is a rotation of them, optionally with its    *)
(* first sample replaced by one of SpecialSamples, which hold the          *)
(* degenerate placements and numbers next to the range of the words on its *)
(* outside (which IsRngOutcome rejects).                                   *)
(***************************************************************************)
BaseSamples ==
  << \* the least words: the corner -400, -400, mass 50; e = -0.75
     Sample(0, 0, 0, 262144),
     \* 0.00933837890625 to the right of the sun, of mass 97.998184...
     Sample(4194402, 4194304, 81341, 262144),
     \* near 0, 1 and near 0, -1
     Sample(4194304, 4204790, 0, 262144),
     Sample(4194304, 4183818, 0, 262144),
     \* 200, 100
     Sample(6291456, 5242880, 1608776, 4194304),
     \* -100, 300, mass 5000
     Sample(3145728, 7340032, 8388607, 6160384),
     \* the greatest words: x = y = 399.9998779296875, e = 0.8
     Sample(8388607, 8388607, 3304600, 8388607),
     \* near 40, -30
     Sample(4613734, 3879731, 1101538, 4194303),
     \* near -20, on the x axis
     Sample(3984589, 4194304, 84733, 5177344),
     \* 0, 399.875, mass 5000, e = -0.8
     Sample(4194304, 8387297, 8388607, 0),
     \* 300, -400
     Sample(7340032, 0, 4999289, 3211264),
     \* near 5, 3
     Sample(4246733, 4225761, 4151956, 4194304) >>

SpecialSamples ==
  << \* on the sun: x = y = 0, mass 50, e = -0.75
     Sample(4194304, 4194304, 0, 262144),
     \* on the fifth base sample
     Sample(6291456, 5242880, 423668, 262144),
     \* the number next above the words, for x
     Sample(8388608, 4194304, 0, 0),
     \* the number next below the words, for mass
     Sample(6291456, 4194304, -1, 0) >>

\* the samples of stream (rot, special): special = 0 takes none
Stream(amount, rot, special) ==
  [k \in 1..amount |->
     IF k = 1 /\ special > 0 THEN SpecialSamples[special]
     ELSE BaseSamples[((k - 1 + rot) % Len(BaseSamples)) + 1]]

\* the setups random_setup returns for the enumerated draws
Setups(amounts, rots, specials) ==
  { random_setup(a, Stream(a, r, s)) :
      <<a, r, s>> \in { t \in amounts \X rots \X specials :
                          IsRngOutcome(t[1], Stream(t[1], t[2], t[3])) } }

AllRots == 0..(Len(BaseSamples) - 1)

AllSpecials == 0..Len(SpecialSamples)

\* amounts on both sides of the range of gen_range(4..=12)
AmountCandidates == (AMOUNT_MIN - 1)..(AMOUNT_MAX + 1)

ShortSetups ==
  Setups({a \in AmountCandidates : a <= MaxAmount}, AllRots, AllSpecials)

LongSetups == Setups({AMOUNT_MIN}, {0}, {0})

AllSetups == Setups(AmountCandidates, AllRots, AllSpecials)

(***************************************************************************)
(* The frame loop of main.                                                 *)
(***************************************************************************)
VARIABLES
  objects,    \* main's `objects`
  pc,         \* the statement of the loop body main is at
  keyR,       \* is_key_pressed(KeyCode::R) in the current frame
  keySpace,   \* is_key_down(KeyCode::Space) in the current frame
  moves,      \* moves made since the last random_setup (bounds the run)
  probe       \* the arguments and result of a lone call of orbit_velocity

vars == <<objects, pc, keyR, keySpace, moves, probe>>

\* the loop body with the cull statement moved behind the move
NextPcCullLast(p) ==
  CASE p = "reset" -> "accumulate"
    [] p = "accumulate" -> "move"
    [] p = "move" -> "cull"
    [] p = "cull" -> "render"
    [] p = "render" -> "reset"

\* the order of the statements of the loop body
NextPc(p) ==
  CASE p = "reset" -> "cull"
    [] p = "cull" -> "accumulate"
    [] p = "accumulate" -> "move"
    [] p = "move" -> "render"
    [] p = "render" -> "reset"

\* the closure of retain_mut with < in place of <=
KeepStrictlyInside(p) == FLt(Length(p.pos), CULL_DISTANCE)

\* the closure of retain_mut
Keep(p) == FLe(Length(p.pos), CULL_DISTANCE)

\* objects.retain_mut(|p| p.pos.length() <= CULL_DISTANCE)
Retain(objs) == SelectSeq(objs, Keep)

\* the inner loop with the test of the Space key left out
RECURSIVE InnerLoopIgnoringSpace(_, _, _, _, _)
InnerLoopIgnoringSpace(obj, i, copy, j, space) ==
  IF j > Len(copy) THEN obj
  ELSE InnerLoopIgnoringSpace(IF i # j THEN gravitate(obj, copy[j]) ELSE obj,
                              i, copy, j + 1, space)

\* the inner loop over copy, from index j on, for the body obj at index i
RECURSIVE InnerLoop(_, _, _, _, _)
InnerLoop(obj, i, copy, j, space) ==
  IF j > Len(copy) THEN obj
  ELSE InnerLoop(IF i # j /\ ~space THEN gravitate(obj, copy[j]) ELSE obj,
                 i, copy, j + 1, space)

\* one pass of a loop that updates the bodies in place: it moves the body and
\* reads the other bodies from the live collection, not from the snapshot
OuterPassInPlace(objs, copy, i, space) ==
  LET moved == IF space THEN objs[i] ELSE apply_velocity(objs[i])
      live == [objs EXCEPT ![i] = moved]
  IN [objs EXCEPT ![i] = InnerLoop(moved, i, live, 1, space)]

\* one pass of the outer loop: the body at index i, against the snapshot
OuterPass(objs, copy, i, space) ==
  [objs EXCEPT ![i] = InnerLoop(objs[i], i, copy, 1, space)]

\* the outer loop, visiting the bodies in the order given, from its k-th on
RECURSIVE OuterLoop(_, _, _, _, _)
OuterLoop(objs, copy, order, k, space) ==
  IF k > Len(order) THEN objs
  ELSE OuterLoop(OuterPass(objs, copy, order[k], space),
                 copy, order, k + 1, space)

\* the order of iter_mut().enumerate()
IterOrder(n) == [k \in 1..n |-> k]

\* let copy = objects.clone(); and the two nested loops
Accumulate(objs, space) ==
  LET copy == objs
  IN OuterLoop(objs, copy, IterOrder(Len(objs)), 1, space)

\* for obj in objects.iter_mut() { obj.apply_velocity() }
MoveAll(objs) == [i \in 1..Len(objs) |-> apply_velocity(objs[i])]

NoProbe == <<>>

\* let mut objects = random_setup(); and the first frame's keys
InitWith(setups, maxMoves) ==
  /\ objects \in setups
  /\ pc = "reset"
  /\ keyR \in BOOLEAN
  /\ keySpace \in {TRUE} \cup (IF maxMoves > 0 THEN {FALSE} ELSE {})
  /\ moves = 0
  /\ probe = NoProbe

\* if is_key_pressed(KeyCode::R) { objects = random_setup(); }
ResetStep(setups) ==
  /\ pc = "reset"
  /\ IF keyR
     THEN /\ objects' \in setups
          /\ moves' = 0
     ELSE UNCHANGED <<objects, moves>>
  /\ pc' = NextPc(pc)
  /\ UNCHANGED <<keyR, keySpace, probe>>

CullStep ==
  /\ pc = "cull"
  /\ objects' = Retain(objects)
  /\ pc' = NextPc(pc)
  /\ UNCHANGED <<keyR, keySpace, moves, probe>>

AccumulateStep ==
  /\ pc = "accumulate"
  /\ objects' = Accumulate(objects, keySpace)
  /\ pc' = NextPc(pc)
  /\ UNCHANGED <<keyR, keySpace, moves, probe>>

MoveStep ==
  /\ pc = "move"
  /\ IF ~keySpace
     THEN /\ objects' = MoveAll(objects)
          /\ moves' = moves + 1
     ELSE UNCHANGED <<objects, moves>>
  /\ pc' = NextPc(pc)
  /\ UNCHANGED <<keyR, keySpace, probe>>

\* rendering reads the state; next_frame().await brings the next frame's
\* keys.  Space is held in every frame once maxMoves moves are made.
RenderStep(maxMoves) ==
  /\ pc = "render"
  /\ keyR' \in BOOLEAN
  /\ keySpace' \in {TRUE} \cup (IF moves < maxMoves THEN {FALSE} ELSE {})
  /\ pc' = NextPc(pc)
  /\ UNCHANGED <<objects, moves, probe>>

Frame(setups, maxMoves) ==
  \/ ResetStep(setups)
  \/ CullStep
  \/ AccumulateStep
  \/ MoveStep
  \/ RenderStep(maxMoves)

Init == InitWith(ShortSetups, MaxMoves)

Next == Frame(ShortSetups, MaxMoves)

Spec == Init /\ [][Next]_vars

InitLong == InitWith(LongSetups, LongMoves)

NextLong == Frame(LongSetups, LongMoves)

SpecLong == InitLong /\ [][NextLong]_vars

InitSetup == InitWith(AllSetups, 0)

NextSetup == Frame(AllSetups, 0)

SpecSetup == InitSetup /\ [][NextSetup]_vars


(***************************************************************************)
(* A lone call of orbit_velocity on arguments drawn from bounded sets,     *)
(* among them moving and lighter centers, which main never passes.         *)
(***************************************************************************)
\* coordinates gen_range draws: -400, -200, near -20, 0, near 1, 200 and
\* the greatest one
ProbeCoordinates ==
  { gen_range(FNeg(MAX_ORBIT_RADIUS), MAX_ORBIT_RADIUS, k) :
      k \in {0, 2097152, 3984589, 4194304, 4204790, 6291456, 8388607} }

\* the least and the greatest mass gen_range draws
ProbeMasses ==
  { gen_range_inclusive(MASS_MIN, MASS_MAX, k) : k \in {0, 8388607} }

ProbeSats ==
  { Planet(Vec(x, y), m, ZeroVec, <<>>) :
      <<x, y, m>> \in ProbeCoordinates \X ProbeCoordinates \X ProbeMasses }

ProbeCenters ==
  { Sun,
    Planet(Vec(Whole(10), Whole(-5)), SUN_MASS, Vec(Whole(1), Real(-1, -1)), <<>>),
    Planet(ZeroVec, Whole(20000), Vec(Real(-3, -3), Real(5, -3)), <<>>) }

InitOrbit ==
  /\ probe \in { [sat |-> s, center |-> c, out |-> ZeroVec, done |-> FALSE] :
                   <<s, c>> \in ProbeSats \X ProbeCenters }
  /\ objects = <<>>
  /\ pc = "orbit"
  /\ keyR = FALSE
  /\ keySpace = FALSE
  /\ moves = 0

OrbitStep ==
  /\ pc = "orbit"
  /\ ~probe.done
  /\ probe' = [probe EXCEPT !.out = orbit_velocity(probe.sat, probe.center),
                            !.done = TRUE]
  /\ UNCHANGED <<objects, pc, keyR, keySpace, moves>>

NextOrbit == OrbitStep

SpecOrbit == InitOrbit /\ [][NextOrbit]_vars


(***************************************************************************)
(* Properties.                                                             *)
(***************************************************************************)
Bodies == 1..Len(objects)

\* both components are numbers
Finite(v) == IsFinite(v.x) /\ IsFinite(v.y)

\* the body is farther from the origin than CULL_DISTANCE, as the program
\* measures the distance (a NaN position is not within any distance)
Farther(p) == ~FLe(Length(p.pos), CULL_DISTANCE)

\* C1. Trail bound: in every state every body's trail holds at most
\* TRAIL_LENGTH entries; a move adds one entry to a trail shorter than
\* TRAIL_LENGTH, and on a trail of TRAIL_LENGTH entries it evicts the oldest
\* one and keeps the length: the oldest entry left is the one that was the
\* second oldest.
TrailBound ==
  /\ \A i \in Bodies : Len(objects[i].trail) <= TRAIL_LENGTH
  /\ [][/\ \A j \in 1..Len(objects') :
             Len(objects'[j].trail) <= TRAIL_LENGTH
        /\ pc = "move" /\ ~keySpace =>
             \A i \in Bodies :
               /\ Len(objects'[i].trail)
                    = (IF Len(objects[i].trail) < TRAIL_LENGTH
                       THEN Len(objects[i].trail) + 1 ELSE TRAIL_LENGTH)
               /\ Len(objects[i].trail) = TRAIL_LENGTH =>
                    objects'[i].trail[TRAIL_LENGTH]
                      = objects[i].trail[TRAIL_LENGTH - 1]]_vars

\* a body has moved more than TRAIL_LENGTH times, its trail is full and the
\* positions at its old end differ
TrailBoundWitness ==
  /\ moves > TRAIL_LENGTH
  /\ \E i \in Bodies :
       /\ Len(objects[i].trail) = TRAIL_LENGTH
       /\ objects[i].trail[TRAIL_LENGTH] # objects[i].trail[TRAIL_LENGTH - 1]

\* the trail and position of every body after the step are those of a body
\* before it
TrailsKept ==
  \A j \in 1..Len(objects') :
    \E i \in Bodies : /\ objects'[j].trail = objects[i].trail
                      /\ objects'[j].pos = objects[i].pos

\* C2. Trail history: a body starts with an empty trail; a move puts the
\* position the body had before it at the front of the trail and shifts the
\* earlier entries back by one, so that the k-th entry is the position
\* before the k-th most recent move; every other step, those of a paused
\* tick among them, leaves each body's trail and position as they were.
TrailHistory ==
  /\ \A i \in Bodies : objects[i].trail = <<>>
  /\ [][CASE pc = "move" /\ ~keySpace ->
               \A i \in Bodies :
                 /\ Len(objects'[i].trail) >= 1
                 /\ objects'[i].trail[1] = objects[i].pos
                 /\ \A k \in 2..Len(objects'[i].trail) :
                      objects'[i].trail[k] = objects[i].trail[k - 1]
          [] pc = "reset" /\ keyR ->
               \A j \in 1..Len(objects') : objects'[j].trail = <<>>
          [] OTHER -> TrailsKept]_vars

\* a paused tick has ended for a body that moved at least twice before it
TrailHistoryWitness ==
  /\ pc = "render"
  /\ keySpace
  /\ \E i \in Bodies :
       /\ Len(objects[i].trail) >= 2
       /\ Finite(objects[i].pos)
       /\ objects[i].trail[1] # objects[i].trail[2]

\* C3. Culling: the cull step keeps exactly the bodies that are not farther
\* from the origin than CULL_DISTANCE: every body it leaves is within the
\* distance, every body within the distance (the threshold included) is
\* left, unchanged and in the same order, and nothing else appears.
CullingExact ==
  [][pc = "cull" =>
       /\ \A j \in 1..Len(objects') : ~Farther(objects'[j])
       /\ Len(objects') = Cardinality({i \in Bodies : ~Farther(objects[i])})
       /\ \A i \in Bodies :
            ~Farther(objects[i]) =>
              objects'[Cardinality({h \in 1..i : ~Farther(objects[h])})]
                = objects[i]]_vars

\* the cull step has just run on a collection it had removed a body from
\* earlier, and has kept a body at a distance of exactly CULL_DISTANCE
CullingWitness ==
  /\ pc = "accumulate"
  /\ Len(objects) <= AMOUNT_MIN
  /\ \E i \in Bodies :
       /\ Length(objects[i].pos) = CULL_DISTANCE
       /\ objects[i].pos.x = CULL_DISTANCE

\* the orders in which n bodies can be visited: all of them up to four
\* bodies, the rotations and the reversed rotations beyond
Orders(n) ==
  IF n <= 4
  THEN { f \in [1..n -> 1..n] : \A a, b \in 1..n : f[a] = f[b] => a = b }
  ELSE { [k \in 1..n |-> ((k - 1 + r) % n) + 1] : r \in 0..(n - 1) }
         \cup { [k \in 1..n |-> ((n - k + r) % n) + 1] : r \in 0..(n - 1) }

\* C4. Order-independent force accumulation: the accumulation step of a tick
\* gives the same collection whatever the order the bodies are visited in,
\* each visit reading the other bodies from the snapshot taken at the start
\* of the step; it writes no body's position, mass or trail.
OrderIndependent ==
  [][pc = "accumulate" =>
       /\ Len(objects') = Len(objects)
       /\ \A order \in Orders(Len(objects)) :
            OuterLoop(objects, objects, order, 1, keySpace) = objects'
       /\ \A i \in Bodies :
            /\ objects'[i].pos = objects[i].pos
            /\ objects'[i].mass = objects[i].mass
            /\ objects'[i].trail = objects[i].trail]_vars

\* an unpaused accumulation has run on at least three bodies and has changed
\* the velocities of two of them
OrderIndependentWitness ==
  /\ pc = "move"
  /\ ~keySpace
  /\ Len(objects) >= 3
  /\ \E i, j \in Bodies :
       /\ i # j
       /\ Len(objects[i].trail) >= 1 /\ Len(objects[j].trail) >= 1
       /\ Finite(objects[i].velocity) /\ Finite(objects[j].velocity)
       /\ objects[i].pos # VAdd(objects[i].trail[1], objects[i].velocity)
       /\ objects[j].pos # VAdd(objects[j].trail[1], objects[j].velocity)

\* no body of the collection has a NaN position
AllFinite == \A i \in Bodies : Finite(objects[i].pos)

\* C5, as claimed: in a tick during which pause is held (and no reset is
\* requested) the body collection stays what it was.  It does not: the cull
\* step runs in a paused tick too.
PauseFreezesCollection ==
  [][keySpace /\ ~keyR /\ AllFinite => objects' = objects]_vars

\* C5, amended: in a tick during which pause is held and no reset is
\* requested, force accumulation and movement change nothing, and the cull
\* step removes the bodies farther than CULL_DISTANCE and nothing else:
\* every other body keeps its position, velocity, mass and trail.
PauseFreezesWithinCull ==
  [][keySpace /\ ~keyR =>
       /\ pc # "cull" => objects' = objects
       /\ pc = "cull" =>
            /\ \A i \in Bodies :
                 ~Farther(objects[i]) => \E j \in 1..Len(objects') :
                                            objects'[j] = objects[i]
            /\ \A j \in 1..Len(objects') :
                 \E i \in Bodies : ~Farther(objects[i]) /\ objects[i] = objects'[j]
            /\ Len(objects') <= Len(objects)]_vars

\* a paused tick has ended on bodies that moved before and are in motion
PauseWitness ==
  /\ pc = "render"
  /\ keySpace
  /\ ~keyR
  /\ moves >= 1
  /\ \E i \in Bodies :
       /\ Finite(objects[i].velocity)
       /\ objects[i].velocity # ZeroVec
       /\ Len(objects[i].trail) >= 1

\* C6. Scenario bounds: what random_setup returns holds 4 to 12 satellites
\* followed by the sun, 5 to 13 bodies; the sun has mass 1,500,000, zero
\* velocity and the origin as position; every satellite has a mass within
\* 50..5000, both coordinates within -MAX_ORBIT_RADIUS..MAX_ORBIT_RADIUS
\* (the upper end excluded) and so a squared distance from the sun of at
\* most 2 * MAX_ORBIT_RADIUS^2.
ScenarioBounds ==
  moves = 0 =>
    LET n == Len(objects)
    IN /\ n >= 5 /\ n <= 13
       /\ objects[n].mass = Whole(1500000)
       /\ objects[n].velocity = ZeroVec
       /\ objects[n].pos = ZeroVec
       /\ \A k \in 1..(n - 1) :
            /\ FLe(Whole(50), objects[k].mass)
            /\ FLe(objects[k].mass, Whole(5000))
            /\ FLe(FNeg(MAX_ORBIT_RADIUS), objects[k].pos.x)
            /\ FLt(objects[k].pos.x, MAX_ORBIT_RADIUS)
            /\ FLe(FNeg(MAX_ORBIT_RADIUS), objects[k].pos.y)
            /\ FLt(objects[k].pos.y, MAX_ORBIT_RADIUS)
            /\ FLe(LengthSquared(objects[k].pos),
                   FMul(Whole(2), FMul(MAX_ORBIT_RADIUS, MAX_ORBIT_RADIUS)))

\* a setup of thirteen bodies whose first satellite sits on the lower
\* bounds of the coordinate and mass ranges
ScenarioBoundsWitness ==
  /\ moves = 0
  /\ pc = "cull"
  /\ keyR
  /\ Len(objects) = 13
  /\ objects[1].pos = Vec(FNeg(MAX_ORBIT_RADIUS), FNeg(MAX_ORBIT_RADIUS))
  /\ objects[1].mass = MASS_MIN

\* C7, as claimed: random_setup never places two bodies at the same point,
\* so no velocity it computes is NaN.
NoCoincidentBodies ==
  moves = 0 =>
    /\ \A i, j \in Bodies : i # j => objects[i].pos # objects[j].pos
    /\ \A i \in Bodies : Finite(objects[i].velocity)

\* |a|
FAbs(a) == IF IsNaN(a) THEN NaN ELSE <<Abs(a[1]), a[2]>>

\* the floating-point tolerance of C8: 2^-16, relative
Tolerance == Real(1, -16)

\* min(sqrt(G * massSum / dist), MAX_SPEED)
CappedSpeed(massSum, dist) ==
  FMin(FSqrt(FDiv(FMul(G, massSum), dist)), MAX_SPEED)

\* C8. Orbit correctness: for a satellite at a distance d > 0 from the
\* center, orbit_velocity less the center's velocity is, within a relative
\* tolerance of 2^-16, a vector perpendicular to the radius vector, turned
\* from it in the sense of (x, y) -> (-y, x), of magnitude
\* min(sqrt(G * (M + m) / d), MAX_SPEED), and so not above MAX_SPEED.
OrbitCorrect ==
  (pc = "orbit" /\ probe.done /\ probe.sat.pos # probe.center.pos) =>
    LET diff == VSub(probe.sat.pos, probe.center.pos)
        rel == VSub(probe.out, probe.center.velocity)
        d == Length(diff)
        v == CappedSpeed(FAdd(probe.center.mass, probe.sat.mass), d)
        speed == Length(rel)
        dot == FAdd(FMul(rel.x, diff.x), FMul(rel.y, diff.y))
        cross == FSub(FMul(diff.x, rel.y), FMul(diff.y, rel.x))
    IN /\ Finite(probe.out)
       /\ FLe(FAbs(FSub(speed, v)), FMul(Tolerance, v))
       /\ FLe(FAbs(dot), FMul(Tolerance, FMul(speed, d)))
       /\ FLt(Zero, cross)
       /\ FLe(speed, FMul(MAX_SPEED, FAdd(One, Tolerance)))
       /\ probe.center.velocity = ZeroVec => FLe(speed, MAX_SPEED)

\* orbit_velocity has returned for a satellite off both axes of a moving
\* center, at a distance where the speed is below MAX_SPEED
OrbitCorrectWitness ==
  /\ pc = "orbit"
  /\ probe.done
  /\ probe.center.velocity # ZeroVec
  /\ probe.sat.pos.x # probe.center.pos.x
  /\ probe.sat.pos.y # probe.center.pos.y
  /\ FLt(CappedSpeed(FAdd(probe.center.mass, probe.sat.mass),
                     Distance(probe.sat.pos, probe.center.pos)), MAX_SPEED)
  /\ probe.out # probe.center.velocity

\* direction(p -> q) * G * q.mass / distanceSquared
Pull(p, q) ==
  VMul(Normalize(VSub(q.pos, p.pos)),
       FDiv(FMul(G, q.mass), DistanceSquared(p.pos, q.pos)))

\* the velocity v increased, one after the other, by the pulls on body i of
\* objs from the bodies j..Len(objs) of objs other than i
RECURSIVE AddPulls(_, _, _, _)
AddPulls(objs, i, j, v) ==
  IF j > Len(objs) THEN v
  ELSE AddPulls(objs, i, j + 1,
                IF j = i THEN v ELSE VAdd(v, Pull(objs[i], objs[j])))

\* C9. Integration order within an unpaused tick: the accumulation step adds
\* to every body's velocity the pulls of the other bodies j,
\* direction(self -> j) * G * mass_j / distanceSquared (its own mass plays
\* no part and it does not pull itself), and changes nothing else; the move
\* step follows it and advances every position by the velocity so updated,
\* times 1, leaving velocity and mass alone.
IntegrationOrder ==
  [][/\ pc = "accumulate" /\ ~keySpace =>
          /\ pc' = "move"
          /\ Len(objects') = Len(objects)
          /\ \A i \in Bodies :
               objects'[i] =
                 [objects[i] EXCEPT
                    !.velocity = AddPulls(objects, i, 1, objects[i].velocity)]
     /\ pc = "move" /\ ~keySpace =>
          /\ Len(objects') = Len(objects)
          /\ \A i \in Bodies :
               /\ objects'[i].pos = VAdd(objects[i].pos, objects[i].velocity)
               /\ objects'[i].velocity = objects[i].velocity
               /\ objects'[i].mass = objects[i].mass]_vars

\* an unpaused tick has ended in which the sun, at rest until then, was
\* pulled and moved by the velocity it gained
IntegrationWitness ==
  /\ pc = "render"
  /\ ~keySpace
  /\ moves = 1
  /\ \E i \in Bodies :
       /\ objects[i].mass = SUN_MASS
       /\ Finite(objects[i].velocity)
       /\ objects[i].velocity # ZeroVec
       /\ objects[i].trail = <<ZeroVec>>
       /\ objects[i].pos = objects[i].velocity

\* C10, as claimed: the cull step is the last step of a tick, so when a tick
\* ends (the bodies are rendered) no body with a position is farther than
\* CULL_DISTANCE from the origin.  It is the first step.
CullIsLastStep ==
  pc = "render" =>
    \A i \in Bodies : Finite(objects[i].pos) => ~Farther(objects[i])

\* C10, amended: within a tick the steps run in the order cull, snapshot and
\* force accumulation, move, render, after the reset check; the cull step
\* removes bodies according to the positions they have at the start of the
\* tick, so that no body farther than CULL_DISTANCE is left right after it.
StepOrder ==
  [][/\ pc = "reset" => pc' = "cull"
     /\ pc = "cull" =>
          /\ pc' = "accumulate"
          /\ \A j \in 1..Len(objects') : ~Farther(objects'[j])
     /\ pc = "accumulate" => pc' = "move"
     /\ pc = "move" => pc' = "render"
     /\ pc = "render" => pc' = "reset" /\ objects' = objects]_vars

\* a tick has ended with a body farther than CULL_DISTANCE still in the
\* collection
StepOrderWitness ==
  /\ pc = "render"
  /\ ~keySpace
  /\ \E i \in Bodies : Finite(objects[i].pos) /\ Farther(objects[i])

=============================================================================
